---- MODULE Spec2Model ----
(***************************************************************************)
(* Model of SimpleKMLToShapefile (KML-KMZ-2-SHAPE-FILE/kml-kmz-2-shp.py):  *)
(* the KML polygon extractor and the shapefile (.shp/.shx/.dbf/.prj)       *)
(* encoder.                                                                *)
(*                                                                         *)
(* Representation.                                                         *)
(*  - A parsed XML document is the sequence of its elements in document    *)
(*    (pre-)order; each element is [tag, parent, text], parent being the   *)
(*    index of the parent element (0 for the root).                        *)
(*  - A character string is a sequence of one-character strings.           *)
(*  - The text of a coordinates element is a sequence of lines, a line a   *)
(*    sequence of whitespace-separated tokens, a token the sequence of its *)
(*    comma-separated fields; a field either parses as a number or not.    *)
(*  - .shp and .shx files are sequences of 16-bit words, the .dbf file is  *)
(*    a sequence of bytes.                                                 *)
(***************************************************************************)
EXTENDS Integers, Sequences, FiniteSets, TLC

\* ------------------------------------------------------------------------
\* Bounds of the model
\* ------------------------------------------------------------------------

\* number of operations performed on the converter in one behaviour
MaxCalls == 2

\* ------------------------------------------------------------------------
\* Program constants
\* ------------------------------------------------------------------------

NameWidth == 50
DescWidth == 100
AncestorLevels == 5
HeuristicTokens == 10
ShpHeaderWords == 50
ShapeTypePolygon == 5
FileCode == 9994
ShpVersion == 1000
DbfHeaderLength == 193
DbfRecordLength == 151

\* ------------------------------------------------------------------------
\* Generic helpers
\* ------------------------------------------------------------------------

\* the sequence made of n copies of x (empty when n <= 0)
Rep(x, n) == [i \in 1..n |-> x]

\* Python's s[:n]
Prefix(s, n) == IF Len(s) <= n THEN s ELSE SubSeq(s, 1, n)

\* Python's s.ljust(n, c)
Ljust(s, n, c) == s \o Rep(c, n - Len(s))

RECURSIVE Flatten(_)
\* concatenation of a sequence of sequences
Flatten(ss) ==
    IF ss = <<>> THEN <<>>
    ELSE IF Len(ss) = 1 THEN ss[1]
    ELSE LET h == Len(ss) \div 2
         IN Flatten(SubSeq(ss, 1, h)) \o Flatten(SubSeq(ss, h + 1, Len(ss)))

RECURSIVE SumLen(_)
\* total number of elements of a sequence of sequences
SumLen(ss) == IF ss = <<>> THEN 0 ELSE Len(Head(ss)) + SumLen(Tail(ss))

Min(S) == CHOOSE x \in S : \A y \in S : x <= y
Max(S) == CHOOSE x \in S : \A y \in S : x >= y

RECURSIVE Digits(_)
\* decimal digits of a natural number, as str() prints them
Digits(k) ==
    LET d == <<"0", "1", "2", "3", "4", "5", "6", "7", "8", "9">>[(k % 10) + 1]
    IN IF k < 10 THEN <<d>> ELSE Digits(k \div 10) \o <<d>>

\* ------------------------------------------------------------------------
\* Documents
\* ------------------------------------------------------------------------

\* element text: a character string, or the text of a coordinates element
NoText == [s |-> <<>>, lines |-> <<>>]
StrText(s) == [s |-> s, lines |-> <<>>]
CoordText(lines) == [s |-> <<>>, lines |-> lines]

\* Python truthiness of elem.text (None and "" are false)
HasText(t) == t.s # <<>> \/ t.lines # <<>>

\* `sub in tag` over the tags of the model: no tag of the model contains
\* another one as a proper substring
Contains(tag, sub) == tag = sub

Node(tag, parent, text) == [tag |-> tag, parent |-> parent, text |-> text]

RECURSIVE InSubtree(_, _, _)
\* element i is elem or one of its descendants
InSubtree(doc, elem, i) ==
    IF i = elem THEN TRUE
    ELSE IF i = 0 THEN FALSE
    ELSE InSubtree(doc, elem, doc[i].parent)

\* elem.iter(): elem and its descendants, in document order
Iter(doc, elem) == SelectSeq([i \in 1..Len(doc) |-> i],
                             LAMBDA i : InSubtree(doc, elem, i))

\* elem.find('.//' + tag + '/..'): the parent of the first proper descendant
\* of elem whose tag is exactly tag; 0 stands for None
FindParentOf(doc, elem, tag) ==
    LET hits == SelectSeq(Iter(doc, elem),
                          LAMBDA i : i # elem /\ doc[i].tag = tag)
    IN IF hits = <<>> THEN 0 ELSE doc[Head(hits)].parent

\* ------------------------------------------------------------------------
\* parse_coordinates
\* ------------------------------------------------------------------------

NumField(v) == [num |-> TRUE, v |-> v]
BadField == [num |-> FALSE, v |-> 0]

\* ParseToken with the latitude tested against the longitude range
ParseToken_LatAsLon(tok) ==
    IF Len(tok) < 2 THEN <<>>
    ELSE IF ~tok[1].num \/ ~tok[2].num THEN <<>>
    ELSE IF /\ -180 <= tok[1].v /\ tok[1].v <= 180
            /\ -180 <= tok[2].v /\ tok[2].v <= 180
         THEN << <<tok[1].v, tok[2].v>> >>
         ELSE <<>>

\* one whitespace-separated token: the vertices (none or one) it contributes
ParseToken(tok) ==
    IF Len(tok) < 2 THEN <<>>                       \* ',' not in part
    ELSE IF ~tok[1].num \/ ~tok[2].num THEN <<>>     \* ValueError
    ELSE IF /\ -180 <= tok[1].v /\ tok[1].v <= 180
            /\ -90 <= tok[2].v /\ tok[2].v <= 90
         THEN << <<tok[1].v, tok[2].v>> >>
         ELSE <<>>

RECURSIVE ParseLine(_)
ParseLine(line) ==
    IF line = <<>> THEN <<>>
    ELSE ParseToken(Head(line)) \o ParseLine(Tail(line))

RECURSIVE ParseLines(_)
ParseLines(lines) ==
    IF lines = <<>> THEN <<>>
    ELSE ParseLine(Head(lines)) \o ParseLines(Tail(lines))

parse_coordinates(text) == IF ~HasText(text) THEN <<>> ELSE ParseLines(text.lines)

\* ------------------------------------------------------------------------
\* parse_kml
\* ------------------------------------------------------------------------

\* first element of elem.iter() whose tag contains sub and that has text;
\* 0 when there is none
FirstWithText(doc, elem, sub) ==
    LET hits == SelectSeq(Iter(doc, elem),
                          LAMBDA i : Contains(doc[i].tag, sub) /\ HasText(doc[i].text))
    IN IF hits = <<>> THEN 0 ELSE Head(hits)

PlacemarkName(doc, elem) ==
    LET c == FirstWithText(doc, elem, "name")
    IN IF c = 0 THEN <<>> ELSE Prefix(doc[c].text.s, NameWidth)

PlacemarkDescription(doc, elem) ==
    LET c == FirstWithText(doc, elem, "description")
    IN IF c = 0 THEN <<>> ELSE Prefix(doc[c].text.s, DescWidth)

\* the fallback test on the stripped text: it has a newline, or more than
\* ten whitespace-separated tokens
LooksLikePolygon(text) ==
    LET nonEmpty == SelectSeq(text.lines, LAMBDA l : l # <<>>)
    IN Len(nonEmpty) > 1 \/ SumLen(text.lines) > HeuristicTokens

RECURSIVE IsPolygon(_, _, _, _, _)
\* the loop `for _ in range(5)` started at parent, with n rounds left
IsPolygon(doc, elem, child, parent, n) ==
    IF n = 0 THEN FALSE
    ELSE IF Contains(doc[parent].tag, "Polygon") THEN TRUE
    ELSE LET up == FindParentOf(doc, elem, doc[parent].tag)
         IN IF up = 0 THEN LooksLikePolygon(doc[child].text)
            ELSE IsPolygon(doc, elem, child, up, n - 1)

\* the coordinates of the first coordinates element classified as a polygon
PlacemarkCoordinates(doc, elem) ==
    LET hits == SelectSeq(Iter(doc, elem),
                    LAMBDA i : /\ Contains(doc[i].tag, "coordinates")
                               /\ HasText(doc[i].text)
                               /\ IsPolygon(doc, elem, i, i, AncestorLevels))
    IN IF hits = <<>> THEN <<>> ELSE parse_coordinates(doc[Head(hits)].text)

\* "Ensure polygon is closed"
CloseRing(coordinates) ==
    IF coordinates[1] # coordinates[Len(coordinates)]
    THEN Append(coordinates, coordinates[1])
    ELSE coordinates

\* YieldsShape with the threshold one too low
YieldsShape_AtLeast2(doc, elem) == Len(PlacemarkCoordinates(doc, elem)) >= 2

\* the placemark passes `if coordinates and len(coordinates) >= 3`
YieldsShape(doc, elem) == Len(PlacemarkCoordinates(doc, elem)) >= 3

\* f'Polygon_{n}'
PolygonName(n) == <<"P", "o", "l", "y", "g", "o", "n", "_">> \o Digits(n)

\* ParsePlacemark with the record appended outside the test on the
\* coordinates, so that a skipped placemark still leaves a record
ParsePlacemarkRecordAlways(doc, elem, st) ==
    IF ~Contains(doc[elem].tag, "Placemark") THEN st
    ELSE LET name == PlacemarkName(doc, elem)
             shapes2 == IF YieldsShape(doc, elem)
                        THEN Append(st.shapes, CloseRing(PlacemarkCoordinates(doc, elem)))
                        ELSE st.shapes
         IN [shapes |-> shapes2,
             records |-> Append(st.records,
                 [name |-> IF name # <<>> THEN name
                           ELSE PolygonName(Len(shapes2) + 1),
                  description |-> PlacemarkDescription(doc, elem)])]

\* the body of the loop over root.iter() for one element: st is the pair of
\* lists [shapes, records] of the converter
ParsePlacemark(doc, elem, st) ==
    IF ~Contains(doc[elem].tag, "Placemark") THEN st
    ELSE IF ~YieldsShape(doc, elem) THEN st
    ELSE LET name == PlacemarkName(doc, elem)
             shapes2 == Append(st.shapes, CloseRing(PlacemarkCoordinates(doc, elem)))
         IN [shapes |-> shapes2,
             records |-> Append(st.records,
                 [name |-> IF name # <<>> THEN name
                           ELSE PolygonName(Len(shapes2) + 1),
                  description |-> PlacemarkDescription(doc, elem)])]

RECURSIVE ParseFrom(_, _, _)
\* the loop over root.iter(), from element i on
ParseFrom(doc, i, st) ==
    IF i > Len(doc) THEN st
    ELSE IF ~Contains(doc[i].tag, "Placemark") THEN ParseFrom(doc, i + 1, st)
    ELSE ParseFrom(doc, i + 1, ParsePlacemark(doc, i, st))

\* parse_kml: the lists after the call and the value returned
parse_kml(content, st) ==
    IF ~content.xml THEN [st |-> st, ok |-> FALSE]
    ELSE LET st2 == ParseFrom(content.nodes, 1, st)
         IN [st |-> st2, ok |-> Len(st2.shapes) > 0]

\* ------------------------------------------------------------------------
\* struct.pack: 16-bit words of the .shp and .shx files
\* ------------------------------------------------------------------------

\* a word holding 16 bits of an integer, and word k of the double v
IntWord(n) == <<"w", n, 0>>
DblWord(v, k) == <<"d", v, k>>

\* struct.pack('>I', v) and struct.pack('<I', v)
PackBE(v) == <<IntWord(v \div 65536), IntWord(v % 65536)>>
PackLE(v) == <<IntWord(v % 65536), IntWord(v \div 65536)>>

\* b'\x00' * nbytes
ZeroBytes(nbytes) == Rep(IntWord(0), nbytes \div 2)

\* struct.pack('<d', v): 0.0 is eight zero bytes
PackDouble(v) ==
    IF v = 0 THEN ZeroBytes(8)
    ELSE <<DblWord(v, 0), DblWord(v, 1), DblWord(v, 2), DblWord(v, 3)>>

\* all vertices of all shapes
AllCoords(shapes) == Flatten(shapes)

Xs(coords) == {coords[i][1] : i \in 1..Len(coords)}
Ys(coords) == {coords[i][2] : i \in 1..Len(coords)}

\* min_x, min_y, max_x, max_y as packed by both writers
PackBox(coords) ==
    IF coords # <<>>
    THEN PackDouble(Min(Xs(coords))) \o PackDouble(Min(Ys(coords)))
         \o PackDouble(Max(Xs(coords))) \o PackDouble(Max(Ys(coords)))
    ELSE PackDouble(0) \o PackDouble(0) \o PackDouble(0) \o PackDouble(0)

\* ------------------------------------------------------------------------
\* write_shp
\* ------------------------------------------------------------------------

RECURSIVE ShpFileLengthInWords(_)
\* ShpFileLength with every record counted in 16-bit words
ShpFileLengthInWords(shapes) ==
    IF shapes = <<>> THEN ShpHeaderWords
    ELSE ShpFileLengthInWords(SubSeq(shapes, 1, Len(shapes) - 1))
         + 4 + (44 + Len(shapes[Len(shapes)]) * 16) \div 2

RECURSIVE ShpFileLength(_)
\* file_length = 50; for shape in shapes: file_length += 4 + 44 + len(shape) * 16
ShpFileLength(shapes) ==
    IF shapes = <<>> THEN ShpHeaderWords
    ELSE ShpFileLength(SubSeq(shapes, 1, Len(shapes) - 1))
         + 4 + 44 + Len(shapes[Len(shapes)]) * 16

ShpHeader(shapes) ==
    PackBE(FileCode) \o ZeroBytes(20)
    \o PackBE(ShpFileLength(shapes))
    \o PackLE(ShpVersion) \o PackLE(ShapeTypePolygon)
    \o PackBox(AllCoords(shapes))
    \o PackDouble(0) \o PackDouble(0) \o PackDouble(0) \o PackDouble(0)

\* record_length = 44 + len(shape) * 16
RecordLength(shape) == 44 + Len(shape) * 16

RECURSIVE PackPoints(_)
PackPoints(shape) ==
    IF shape = <<>> THEN <<>>
    ELSE PackDouble(Head(shape)[1]) \o PackDouble(Head(shape)[2])
         \o PackPoints(Tail(shape))

\* the 8-byte record header of record i (0-based, as enumerate counts)
ShpRecordHeader(i, shape) == PackBE(i + 1) \o PackBE(RecordLength(shape) \div 2)

\* what is written after the record header
ShpRecordContent(shape) ==
    PackLE(ShapeTypePolygon) \o PackBox(shape)
    \o PackLE(1) \o PackLE(Len(shape)) \o PackLE(0)
    \o PackPoints(shape)

ShpRecord(i, shape) == ShpRecordHeader(i, shape) \o ShpRecordContent(shape)

write_shp(shapes) ==
    ShpHeader(shapes)
    \o Flatten([i \in 1..Len(shapes) |-> ShpRecord(i - 1, shapes[i])])

\* ------------------------------------------------------------------------
\* write_shx
\* ------------------------------------------------------------------------

ShxHeader(shapes) ==
    PackBE(FileCode) \o ZeroBytes(20)
    \o PackBE(ShpHeaderWords + Len(shapes) * 4)
    \o PackLE(ShpVersion) \o PackLE(ShapeTypePolygon)
    \o PackBox(AllCoords(shapes))
    \o ZeroBytes(32)

\* content_length = 44 + len(shape) * 16
ShxContentLength(shape) == 44 + Len(shape) * 16

RECURSIVE ShxOffset(_, _)
\* the value of offset when the loop reaches shape i (1-based):
\* offset = 50, then offset += 4 + content_length after each shape
ShxOffset(shapes, i) ==
    IF i = 1 THEN ShpHeaderWords
    ELSE ShxOffset(shapes, i - 1) + 4 + ShxContentLength(shapes[i - 1])

ShxEntry(shapes, i) ==
    PackBE(ShxOffset(shapes, i)) \o PackBE(ShxContentLength(shapes[i]) \div 2)

write_shx(shapes) ==
    ShxHeader(shapes)
    \o Flatten([i \in 1..Len(shapes) |-> ShxEntry(shapes, i)])

\* ------------------------------------------------------------------------
\* write_dbf: bytes
\* ------------------------------------------------------------------------

\* ASCII codes of the one-byte characters of the model
Ascii ==
    [c \in {" ", "_", "0", "1", "2", "3", "4", "5", "6", "7", "8", "9",
            "A", "B", "C", "D", "E", "F", "M", "N", "P", "S",
            "a", "d", "g", "l", "n", "o", "y"} |->
        CASE c = " " -> 32 [] c = "_" -> 95
          [] c = "0" -> 48 [] c = "1" -> 49 [] c = "2" -> 50 [] c = "3" -> 51
          [] c = "4" -> 52 [] c = "5" -> 53 [] c = "6" -> 54 [] c = "7" -> 55
          [] c = "8" -> 56 [] c = "9" -> 57
          [] c = "A" -> 65 [] c = "B" -> 66 [] c = "C" -> 67 [] c = "D" -> 68
          [] c = "E" -> 69 [] c = "F" -> 70 [] c = "M" -> 77 [] c = "N" -> 78
          [] c = "P" -> 80 [] c = "S" -> 83
          [] c = "a" -> 97 [] c = "d" -> 100 [] c = "g" -> 103
          [] c = "l" -> 108 [] c = "n" -> 110 [] c = "o" -> 111
          [] c = "y" -> 121]

\* UTF-8 encoding of one character (U+00E9 takes two bytes)
EncodeChar(c) == IF c = "é" THEN <<195, 169>> ELSE <<Ascii[c]>>

\* str.encode('utf-8', errors='ignore')
EncodeUtf8(s) == Flatten([i \in 1..Len(s) |-> EncodeChar(s[i])])

\* struct.pack('<I', v) and struct.pack('<H', v) as bytes
BytesLE32(v) == <<v % 256, (v \div 256) % 256, (v \div 65536) % 256, (v \div 16777216) % 256>>
BytesLE16(v) == <<v % 256, (v \div 256) % 256>>

\* one 32-byte field descriptor
DbfField(name, width) ==
    Ljust(EncodeUtf8(name), 11, 0) \o EncodeUtf8(<<"C">>) \o Rep(0, 4)
    \o <<width, 0>> \o Rep(0, 14)

\* everything write_dbf writes before the records
DbfHeader(records) ==
    <<3>> \o <<24, 1, 1>> \o BytesLE32(Len(records))
    \o BytesLE16(DbfHeaderLength) \o BytesLE16(DbfRecordLength) \o Rep(0, 20)
    \o DbfField(<<"N", "A", "M", "E">>, NameWidth)
    \o DbfField(<<"D", "E", "S", "C">>, DescWidth)
    \o <<13>>

\* the bytes written for one record
DbfRecord(record) ==
    <<32>>
    \o EncodeUtf8(Ljust(Prefix(record.name, NameWidth), NameWidth, " "))
    \o EncodeUtf8(Ljust(Prefix(record.description, DescWidth), DescWidth, " "))

write_dbf(records) ==
    DbfHeader(records)
    \o Flatten([i \in 1..Len(records) |-> DbfRecord(records[i])])

\* write_prj: the fixed WGS84 descriptor
write_prj == "GEOGCS[GCS_WGS_1984]"

\* ------------------------------------------------------------------------
\* Input documents of the model
\* ------------------------------------------------------------------------

Tok(lon, lat) == <<NumField(lon), NumField(lat)>>

\* an open triangle, on one line
TextOpen3 == CoordText(<< <<Tok(0, 0), Tok(1, 0), Tok(1, 1)>> >>)
\* another open triangle, with altitudes, on three lines
TextOpen3b == CoordText(<< <<Tok(2, 2) \o <<NumField(0)>>>>,
                          <<Tok(3, 2) \o <<NumField(0)>>>>,
                          <<Tok(3, 3) \o <<NumField(0)>>>> >>)
\* a ring that is already closed
TextClosed4 == CoordText(<< <<Tok(0, 0), Tok(-1, 0), Tok(-1, -1), Tok(0, 0)>> >>)
\* three vertices, the last equal to the first
TextClosed3 == CoordText(<< <<Tok(0, 0), Tok(1, 1), Tok(0, 0)>> >>)
\* two vertices only
TextTwo == CoordText(<< <<Tok(0, 0), Tok(1, 0)>> >>)
\* tokens that are dropped: no comma, not a number, out of range
TextDirty == CoordText(<< <<Tok(4, 4), <<NumField(7)>>, <<BadField, NumField(1)>>,
                            Tok(181, 0), Tok(5, 4)>>,
                          <<>>,
                          <<Tok(0, 91), Tok(5, 5), <<NumField(1), BadField>>>> >>)
\* dirty text leaving two vertices
TextDirtyTwo == CoordText(<< <<Tok(4, 4), Tok(0, -91), Tok(5, 4), Tok(-181, 0)>> >>)
\* a single point
TextPoint == CoordText(<< <<Tok(6, 6)>> >>)

LongName == Rep("a", NameWidth + 1)
LongDesc == Rep("d", DescWidth + 1)

\* a placemark to build: name and description (<<>> when absent), the
\* geometry element and the text of its coordinates element
Pm(name, description, geometry, text) ==
    [name |-> name, description |-> description, geometry |-> geometry, text |-> text]

\* the elements of one placemark whose Placemark element has index base
PmNodes(pm, base) ==
    LET nameNodes == IF pm.name = <<>> THEN <<>>
                     ELSE <<Node("name", base, StrText(pm.name))>>
        descNodes == IF pm.description = <<>> THEN <<>>
                     ELSE <<Node("description", base, StrText(pm.description))>>
        g == base + Len(nameNodes) + Len(descNodes) + 1
        geomNodes ==
            IF pm.geometry = "Polygon"
            THEN <<Node("Polygon", base, NoText),
                   Node("outerBoundaryIs", g, NoText),
                   Node("LinearRing", g + 1, NoText),
                   Node("coordinates", g + 2, pm.text)>>
            ELSE <<Node(pm.geometry, base, NoText),
                   Node("coordinates", g, pm.text)>>
    IN <<Node("Placemark", 2, NoText)>> \o nameNodes \o descNodes \o geomNodes

RECURSIVE PmsNodes(_, _)
PmsNodes(pms, base) ==
    IF pms = <<>> THEN <<>>
    ELSE LET ns == PmNodes(Head(pms), base)
         IN ns \o PmsNodes(Tail(pms), base + Len(ns))

\* <kml><Document> placemarks </Document></kml>
KmlNodes(pms) ==
    <<Node("kml", 0, NoText), Node("Document", 1, NoText)>> \o PmsNodes(pms, 3)

\* a placemark named M holding a MultiGeometry of a Point and a Polygon
\* whose ring is an open triangle on one line
MultiGeometryNodes ==
    <<Node("kml", 0, NoText), Node("Document", 1, NoText),
      Node("Placemark", 2, NoText),
      Node("name", 3, StrText(<<"M">>)),
      Node("MultiGeometry", 3, NoText),
      Node("Point", 5, NoText),
      Node("coordinates", 6, TextPoint),
      Node("Polygon", 5, NoText),
      Node("outerBoundaryIs", 8, NoText),
      Node("LinearRing", 9, NoText),
      Node("coordinates", 10, TextOpen3)>>

\* the text handed to parse_kml: empty or not, well-formed XML or not, and
\* the element tree when it is well-formed
Kml(pms) == [empty |-> FALSE, xml |-> TRUE, nodes |-> KmlNodes(pms)]
NotXml == [empty |-> FALSE, xml |-> FALSE, nodes |-> <<>>]
EmptyText == [empty |-> TRUE, xml |-> FALSE, nodes |-> <<>>]

Contents ==
    { Kml(<<>>),
      NotXml,
      Kml(<<Pm(<<"F", "1">>, <<>>, "Polygon", TextClosed4)>>),
      Kml(<<Pm(<<>>, <<"d">>, "Polygon", TextOpen3)>>),
      Kml(<<Pm(<<"A">>, <<>>, "Polygon", TextClosed3)>>),
      Kml(<<Pm(<<"A">>, <<"d">>, "Polygon", TextOpen3),
            Pm(<<>>, <<>>, "Polygon", TextOpen3b)>>),
      Kml(<<Pm(<<"B">>, <<>>, "Polygon", TextTwo),
            Pm(<<"é", "a">>, <<"é">>, "Polygon", TextDirty)>>),
      Kml(<<Pm(<<"A">>, <<>>, "Point", TextPoint),
            Pm(<<"B">>, <<>>, "Polygon", TextDirtyTwo),
            Pm(<<"C">>, <<>>, "Polygon", TextClosed4)>>),
      Kml(<<Pm(LongName, LongDesc, "LineString", TextOpen3b),
            Pm(<<"B">>, <<"d">>, "LineString", TextOpen3),
            Pm(<<>>, <<>>, "Polygon", TextClosed4)>>),
      [empty |-> FALSE, xml |-> TRUE, nodes |-> MultiGeometryNodes] }

\* an input file of convert: its extension; for an archive whether it is a
\* valid zip and has a .kml entry; whether the bytes of the KML decode as
\* UTF-8; the text they decode to
KmlFile(content) ==
    [ext |-> "kml", zip |-> FALSE, entry |-> FALSE, utf8 |-> TRUE, content |-> content]
KmzFile(content) ==
    [ext |-> "kmz", zip |-> TRUE, entry |-> TRUE, utf8 |-> TRUE, content |-> content]

InputFiles ==
    {KmlFile(c) : c \in Contents}
    \cup { KmzFile(Kml(<<Pm(<<"F", "1">>, <<>>, "Polygon", TextClosed4)>>)),
           KmzFile(EmptyText),
           [KmzFile(Kml(<<>>)) EXCEPT !.zip = FALSE],
           [KmzFile(Kml(<<>>)) EXCEPT !.entry = FALSE],
           [KmzFile(Kml(<<>>)) EXCEPT !.utf8 = FALSE],
           [KmlFile(Kml(<<Pm(<<"A">>, <<>>, "Polygon", TextOpen3)>>)) EXCEPT !.utf8 = FALSE] }

\* ------------------------------------------------------------------------
\* State
\* ------------------------------------------------------------------------

VARIABLES
    shapes,     \* self.shapes of the converter
    records,    \* self.records of the converter
    parsed,     \* the element trees parse_kml has walked on the converter
    shp,        \* contents of <base>.shp (16-bit words)
    shx,        \* contents of <base>.shx (16-bit words)
    dbf,        \* contents of <base>.dbf (bytes)
    prj,        \* contents of <base>.prj
    files,      \* the output files that exist
    written,    \* the output files the last conversion wrote
    encoded,    \* the shapes and records the last conversion encoded
    input,      \* the text the last conversion loaded (EmptyText if none)
    outcome,    \* how the last conversion ended
    tempDirs,   \* number of temporary directories that exist
    path,       \* extension of the input file of the last conversion
    calls       \* operations performed so far

vars == <<shapes, records, parsed, shp, shx, dbf, prj, files, written,
          encoded, input, outcome, tempDirs, path, calls>>

NoLists == [shapes |-> <<>>, records |-> <<>>]

Init ==
    /\ shapes = <<>>
    /\ records = <<>>
    /\ parsed = <<>>
    /\ shp = <<>>
    /\ shx = <<>>
    /\ dbf = <<>>
    /\ prj = ""
    /\ files = {}
    /\ written = {}
    /\ encoded = NoLists
    /\ input = EmptyText
    /\ outcome = "none"
    /\ tempDirs = 0
    /\ path = ""
    /\ calls = 0

\* ------------------------------------------------------------------------
\* extract_kmz and convert
\* ------------------------------------------------------------------------

\* extract_kmz with the rmtree after the loop instead of in a finally
\* clause: an exception leaves the directory behind
extract_kmz_NoFinally(file, dirs) ==
    LET made == dirs + 1
        removed == made - 1
    IN IF ~file.zip
       THEN [raised |-> "BadZipFile", text |-> FALSE, dirs |-> made]
       ELSE IF ~file.entry
       THEN [raised |-> "", text |-> FALSE, dirs |-> removed]
       ELSE IF ~file.utf8
       THEN [raised |-> "UnicodeDecodeError", text |-> FALSE, dirs |-> made]
       ELSE [raised |-> "", text |-> TRUE, dirs |-> removed]

\* extract_kmz: the exception raised ("" if none), whether a text is
\* returned (None otherwise), and the temporary directories left behind
extract_kmz(file, dirs) ==
    LET made == dirs + 1          \* tempfile.mkdtemp()
        removed == made - 1       \* finally: shutil.rmtree(temp_dir)
    IN IF ~file.zip
       THEN [raised |-> "BadZipFile", text |-> FALSE, dirs |-> removed]
       ELSE IF ~file.entry
       THEN [raised |-> "", text |-> FALSE, dirs |-> removed]
       ELSE IF ~file.utf8
       THEN [raised |-> "UnicodeDecodeError", text |-> FALSE, dirs |-> removed]
       ELSE [raised |-> "", text |-> TRUE, dirs |-> removed]

\* the first part of convert, "Read input file": the exception raised
\* ("" if none) and the temporary directories left behind
Load(file, dirs) ==
    IF file.ext = "kmz"
    THEN LET x == extract_kmz(file, dirs)
         IN IF x.raised # "" THEN x
            ELSE IF ~x.text \/ file.content.empty
            THEN [x EXCEPT !.raised = "Could not extract KML from KMZ file", !.text = FALSE]
            ELSE x
    ELSE IF ~file.utf8
         THEN [raised |-> "UnicodeDecodeError", text |-> FALSE, dirs |-> dirs]
         ELSE [raised |-> "", text |-> TRUE, dirs |-> dirs]

\* convert on a converter whose lists are st: the lists afterwards and the
\* effects on the file system
ConvertOn(file, st) ==
    LET l == Load(file, tempDirs)
        p == parse_kml(file.content, st)
    IN IF l.raised # ""
       THEN /\ outcome' = l.raised
            /\ path' = file.ext
            /\ tempDirs' = l.dirs
            /\ input' = EmptyText
            /\ written' = {}
            /\ UNCHANGED <<shp, shx, dbf, prj, files, encoded>>
       ELSE /\ tempDirs' = l.dirs
            /\ path' = file.ext
            /\ input' = file.content
            /\ IF ~p.ok
               THEN /\ outcome' = "No polygons found in KML file"
                    /\ written' = {}
                    /\ UNCHANGED <<shp, shx, dbf, prj, files, encoded>>
               ELSE /\ outcome' = "ok"
                    /\ shp' = write_shp(p.st.shapes)
                    /\ shx' = write_shx(p.st.shapes)
                    /\ dbf' = write_dbf(p.st.records)
                    /\ prj' = write_prj
                    /\ files' = files \cup {"shp", "shx", "dbf", "prj"}
                    /\ written' = {"shp", "shx", "dbf", "prj"}
                    /\ encoded' = p.st

\* the lists of a converter after convert(file)
ListsAfterConvert(file, st) ==
    IF Load(file, 0).raised # "" THEN st ELSE parse_kml(file.content, st).st

\* converter.convert(file, out) on the converter of the model
Convert(file) ==
    /\ calls < MaxCalls
    /\ calls' = calls + 1
    /\ ConvertOn(file, [shapes |-> shapes, records |-> records])
    /\ LET st == ListsAfterConvert(file, [shapes |-> shapes, records |-> records])
       IN /\ shapes' = st.shapes
          /\ records' = st.records
    /\ parsed' = IF Load(file, 0).raised = "" /\ file.content.xml
                 THEN Append(parsed, file.content.nodes) ELSE parsed

\* convert_kml_to_shapefile(file, out): a new converter, used once
convert_kml_to_shapefile(file) ==
    /\ calls < MaxCalls
    /\ calls' = calls + 1
    /\ ConvertOn(file, NoLists)
    /\ UNCHANGED <<shapes, records, parsed>>

\* converter.parse_kml(content) called directly
ParseKml(content) ==
    /\ calls < MaxCalls
    /\ calls' = calls + 1
    /\ LET p == parse_kml(content, [shapes |-> shapes, records |-> records])
       IN /\ shapes' = p.st.shapes
          /\ records' = p.st.records
    /\ parsed' = IF content.xml THEN Append(parsed, content.nodes) ELSE parsed
    /\ UNCHANGED <<shp, shx, dbf, prj, files, written, encoded, input, outcome,
                   tempDirs, path>>

Next ==
    \/ \E file \in InputFiles : Convert(file)
    \/ \E file \in InputFiles : convert_kml_to_shapefile(file)
    \/ \E content \in Contents : ParseKml(content)

Spec == Init /\ [][Next]_vars

\* ------------------------------------------------------------------------
\* Reading the state back
\* ------------------------------------------------------------------------

\* the placemarks of a document that pass the test of parse_kml, in
\* document order
Yielding(doc) ==
    SelectSeq([i \in 1..Len(doc) |-> i],
              LAMBDA i : Contains(doc[i].tag, "Placemark") /\ YieldsShape(doc, i))

\* <<d, e>> for every such placemark e of every document parsed[d], in the
\* order in which parse_kml visited them
Origins ==
    Flatten([d \in 1..Len(parsed) |->
                [k \in 1..Len(Yielding(parsed[d])) |-> <<d, Yielding(parsed[d])[k]>>]])

\* the big-endian and little-endian 32-bit integers at words pos+1, pos+2
\* of a file (-1 if the words are not those of an integer)
ReadBE(f, pos) ==
    IF pos + 2 <= Len(f) /\ f[pos + 1][1] = "w" /\ f[pos + 2][1] = "w"
    THEN f[pos + 1][2] * 65536 + f[pos + 2][2] ELSE -1
ReadLE(f, pos) ==
    IF pos + 2 <= Len(f) /\ f[pos + 1][1] = "w" /\ f[pos + 2][1] = "w"
    THEN f[pos + 2][2] * 65536 + f[pos + 1][2] ELSE -1

\* the double at words pos+1 .. pos+4 of a file, as a one-element sequence
\* (<<>> if the words are not those of one double)
ReadDouble(f, pos) ==
    IF pos + 4 > Len(f) THEN <<>>
    ELSE IF SubSeq(f, pos + 1, pos + 4) = ZeroBytes(8) THEN <<0>>
    ELSE IF \A k \in 0..3 : f[pos + 1 + k] = DblWord(f[pos + 1][2], k)
         THEN <<f[pos + 1][2]>>
         ELSE <<>>

\* the words at which record i (1-based) of the .shp file begins: all that
\* write_shp wrote before it
RecordStart(ss, i) ==
    Len(ShpHeader(ss)) + SumLen([j \in 1..(i - 1) |-> ShpRecord(j - 1, ss[j])])

\* the ring of a polygon record content, <<>> if it cannot be read
ReadRing(content) ==
    LET parts == ReadLE(content, 18)
        points == ReadLE(content, 20)
        first == 22 + 2 * parts
        xs == [p \in 1..points |-> ReadDouble(content, first + 8 * (p - 1))]
        ys == [p \in 1..points |-> ReadDouble(content, first + 8 * (p - 1) + 4)]
    IN IF parts < 0 \/ points < 0 THEN <<>>
       ELSE IF \E p \in 1..points : xs[p] = <<>> \/ ys[p] = <<>> THEN <<>>
       ELSE [p \in 1..points |-> <<xs[p][1], ys[p][1]>>]

\* the rings a reader gets by walking the index entries and reading each
\* record at the entry's offset, with the entry's content length
ReadRings(shpFile, shxFile) ==
    [k \in 1..((Len(shxFile) - ShpHeaderWords) \div 4) |->
        LET off == ReadBE(shxFile, ShpHeaderWords + 4 * (k - 1))
            len == ReadBE(shxFile, ShpHeaderWords + 4 * (k - 1) + 2)
        IN IF off < 0 \/ len < 0 \/ off + 4 + len > Len(shpFile) THEN <<>>
           ELSE ReadRing(SubSeq(shpFile, off + 4 + 1, off + 4 + len))]

RECURSIVE SumOver(_, _)
\* the sum of F(shape) over the shapes of ss
SumOver(F(_), ss) == IF ss = <<>> THEN 0 ELSE F(Head(ss)) + SumOver(F, Tail(ss))

\* the last operation was a conversion that went as far as parse_kml
Converted == outcome \in {"ok", "No polygons found in KML file"}

\* ------------------------------------------------------------------------
\* Claims
\* ------------------------------------------------------------------------

\* C1: every ring in shapes has at least 4 vertices and its first vertex
\* equals its last vertex (a ring shorter than 4 after closure is discarded).
C1_ClosureInvariant ==
    \A i \in 1..Len(shapes) :
        /\ Len(shapes[i]) >= 4
        /\ shapes[i][1] = shapes[i][Len(shapes[i])]

\* C2: after any sequence of parse_kml calls there are as many records as
\* shapes, and shape i and record i come from the same placemark, the i-th
\* placemark in traversal order that yields a shape: shapes[i] is its closed
\* ring, records[i] has its description, and its name where it has one.
C2_ShapeRecordCorrespondence ==
    LET origins == Origins
    IN /\ Len(shapes) = Len(records)
       /\ Len(shapes) = Len(origins)
       /\ \A i \in 1..Len(origins) :
             LET doc == parsed[origins[i][1]]
                 elem == origins[i][2]
             IN /\ shapes[i] = CloseRing(PlacemarkCoordinates(doc, elem))
                /\ records[i].description = PlacemarkDescription(doc, elem)
                /\ PlacemarkName(doc, elem) # <<>>
                      => records[i].name = PlacemarkName(doc, elem)

\* C2 witness: two parse_kml calls have left three or more shapes, with
\* named and unnamed placemarks among them and a placemark that was skipped.
C2_Witness ==
    /\ Len(parsed) = 2
    /\ Len(shapes) >= 3
    /\ \E i, j \in 1..Len(records) : records[i].name # records[j].name
    /\ \E d \in 1..Len(parsed) : \E e \in 1..Len(parsed[d]) :
          Contains(parsed[d][e].tag, "Placemark") /\ ~YieldsShape(parsed[d], e)

\* C3: a placemark without a usable name that yields shape number k
\* (1-based) gets the record name Polygon_k.
C3_DefaultNameOrdinal ==
    \A i \in 1..Len(Origins) :
        (i <= Len(records) /\ PlacemarkName(parsed[Origins[i][1]], Origins[i][2]) = <<>>)
            => records[i].name = PolygonName(i)

\* C4: the offset of index entry i in the .shx file is the position, in
\* 16-bit words, at which record i begins in the .shp file.
C4_IndexOffsets ==
    "shx" \in files =>
        \A i \in 1..Len(encoded.shapes) :
            ReadBE(shx, ShpHeaderWords + 4 * (i - 1)) = RecordStart(encoded.shapes, i)

C6_ContentLength ==
    "shp" \in files =>
        \A i \in 1..Len(encoded.shapes) :
            ReadBE(shp, RecordStart(encoded.shapes, i) + 2)
                = Len(ShpRecordContent(encoded.shapes[i]))

\* C7: reading the .shp records through the .shx entries gives back the
\* rings that were encoded, in order.
C7_RoundTrip ==
    "shp" \in files => ReadRings(shp, shx) = encoded.shapes

\* C8: every .dbf record takes exactly 151 bytes (flag, 50 bytes of name,
\* 100 bytes of description), so the file is its header plus 151 bytes per
\* record.
C8_FixedWidthRecords ==
    "dbf" \in files =>
        /\ \A k \in 1..Len(encoded.records) :
              Len(DbfRecord(encoded.records[k])) = DbfRecordLength
        /\ Len(dbf) = Len(DbfHeader(encoded.records))
                          + DbfRecordLength * Len(encoded.records)

\* C9: what a conversion encodes, and whether it succeeds or fails with
\* "no polygons", is what extraction of its own input alone gives.
C9_NoStateAcrossConversions ==
    Converted =>
        LET own == parse_kml(input, NoLists)
        IN /\ (outcome = "ok") = own.ok
           /\ outcome = "ok" => encoded = own.st

\* C10: a conversion whose input yields no polygon fails and writes none of
\* the four files.
C10_EmptyResultWritesNothing ==
    (Converted /\ parse_kml(input, NoLists).st.shapes = <<>>)
        => (outcome # "ok" /\ written = {})

\* C11: whenever control is back with the caller of extract_kmz, on every
\* exit path (text returned, no entry, invalid zip, read raising), the
\* temporary directory it created is gone.
C11_TempDirReleased == tempDirs = 0

\* C11 witness: extract_kmz has raised while reading the entry of an archive.
C11_Witness == path = "kmz" /\ outcome = "UnicodeDecodeError" /\ tempDirs = 0

\* C12: the conversion of a bare KML file does not fail for an encoding
\* reason: bytes that are not UTF-8 are read again as Latin-1, which decodes
\* every byte sequence.
C12_BestEffortDecoding == ~(path = "kml" /\ outcome = "UnicodeDecodeError")

\* a token that has two numeric comma-separated fields, both in range
ValidToken(tok) ==
    /\ Len(tok) >= 2
    /\ tok[1].num /\ tok[2].num
    /\ -180 <= tok[1].v /\ tok[1].v <= 180
    /\ -90 <= tok[2].v /\ tok[2].v <= 90

\* the vertices of the valid tokens of a coordinates text, in order
ValidVertices(text) ==
    LET toks == SelectSeq(Flatten(text.lines), ValidToken)
    IN [i \in 1..Len(toks) |-> <<toks[i][1].v, toks[i][2].v>>]

\* the text of the coordinates element parse_kml takes for a placemark
\* (NoText if it takes none)
GeometryText(doc, elem) ==
    LET hits == SelectSeq(Iter(doc, elem),
                    LAMBDA i : /\ Contains(doc[i].tag, "coordinates")
                               /\ HasText(doc[i].text)
                               /\ IsPolygon(doc, elem, i, i, AncestorLevels))
    IN IF hits = <<>> THEN NoText ELSE doc[Head(hits)].text

\* <<d, e>> for every placemark e of every document parsed[d], in order
Placemarks ==
    Flatten([d \in 1..Len(parsed) |->
        LET es == SelectSeq([i \in 1..Len(parsed[d]) |-> i],
                            LAMBDA i : Contains(parsed[d][i].tag, "Placemark"))
        IN [k \in 1..Len(es) |-> <<d, es[k]>>]])

\* the placemarks whose coordinates leave three valid vertices or more
WellFormed ==
    SelectSeq(Placemarks,
              LAMBDA p : Len(ValidVertices(GeometryText(parsed[p[1]], p[2]))) >= 3)

\* C13: a placemark whose coordinates leave fewer than 3 valid vertices
\* gives no shape and no record, and the placemarks that leave 3 or more are
\* all extracted, in order: shapes and records have one entry per such
\* placemark, and shape i begins with the valid vertices of the i-th one.
C13_MalformedGeometryAbsorbed ==
    LET wellFormed == WellFormed
    IN /\ Len(shapes) = Len(wellFormed)
       /\ Len(records) = Len(wellFormed)
       /\ \A i \in 1..Len(wellFormed) :
             LET v == ValidVertices(GeometryText(parsed[wellFormed[i][1]], wellFormed[i][2]))
             IN i <= Len(shapes) => /\ Len(shapes[i]) >= Len(v)
                                    /\ SubSeq(shapes[i], 1, Len(v)) = v

\* C13 witness: a document was parsed in which a placemark whose text has
\* three tokens or more but fewer than three valid vertices precedes a
\* placemark that was extracted.
C13_Witness ==
    /\ shapes # <<>>
    /\ \E p, q \in {Placemarks[i] : i \in 1..Len(Placemarks)} :
          /\ p[1] = q[1] /\ p[2] < q[2]
          /\ SumLen(GeometryText(parsed[p[1]], p[2]).lines) >= 3
          /\ Len(ValidVertices(GeometryText(parsed[p[1]], p[2]))) < 3
          /\ \E i \in 1..Len(WellFormed) : WellFormed[i] = q

\* C14: every vertex of every ring in shapes has its longitude in
\* [-180, 180] and its latitude in [-90, 90].
C14_VertexRange ==
    \A i \in 1..Len(shapes) : \A j \in 1..Len(shapes[i]) :
        /\ -180 <= shapes[i][j][1] /\ shapes[i][j][1] <= 180
        /\ -90 <= shapes[i][j][2] /\ shapes[i][j][2] <= 90

\* C14 witness: a shape was extracted from a text that has tokens with an
\* out-of-range longitude and with an out-of-range latitude.
C14_Witness ==
    \E i \in 1..Len(WellFormed) :
        LET toks == Flatten(GeometryText(parsed[WellFormed[i][1]], WellFormed[i][2]).lines)
        IN /\ i <= Len(shapes)
           /\ \E k \in 1..Len(toks) :
                 Len(toks[k]) >= 2 /\ toks[k][1].num /\ toks[k][1].v > 180
           /\ \E k \in 1..Len(toks) :
                 Len(toks[k]) >= 2 /\ toks[k][2].num /\ toks[k][2].v > 90

RECURSIVE HasPolygonAncestor(_, _, _)
\* element i, or one of its ancestors up to the placemark elem, has a tag
\* that names a Polygon
HasPolygonAncestor(doc, elem, i) ==
    IF i = 0 THEN FALSE
    ELSE IF Contains(doc[i].tag, "Polygon") THEN TRUE
    ELSE IF i = elem THEN FALSE
    ELSE HasPolygonAncestor(doc, elem, doc[i].parent)

\* C15: in every placemark parse_kml has walked, a coordinates element with
\* text that has a Polygon ancestor inside the placemark is classified as a
\* polygon boundary, whatever its text; the fallback on the text decides
\* only for coordinates elements without a Polygon ancestor.
C15_AncestorCheckPrimary ==
    \A p \in {Placemarks[i] : i \in 1..Len(Placemarks)} :
        LET doc == parsed[p[1]]
            elem == p[2]
        IN \A c \in 1..Len(doc) :
              ( /\ InSubtree(doc, elem, c)
                /\ Contains(doc[c].tag, "coordinates")
                /\ HasText(doc[c].text)
                /\ HasPolygonAncestor(doc, elem, c) )
                  => IsPolygon(doc, elem, c, c, AncestorLevels)

\* C16: the header length declared in the .dbf header (bytes 8 and 9,
\* little-endian) is the number of bytes written before the first record.
C16_DbfHeaderLength ==
    "dbf" \in files =>
        dbf[9] + 256 * dbf[10] = Len(DbfHeader(encoded.records))

====
